---- MODULE Spec2Model ----
(***************************************************************************)
(* Model of the commute-cost agent of crypticseeds/rag-commute-agent.      *)
(*                                                                         *)
(* Nine specifications share this module:                                  *)
(*   SpecGraph  the LangGraph workflow as coded (notebooks 05/06)          *)
(*   SpecCalc   the three calculate_cost implementations as pure steps     *)
(*   SpecStore  the invoice write path (upload_invoice, store_invoice)     *)
(*   SpecDoc    the flow documented in backend/LANGGRAPH_FLOW.md           *)
(*   SpecUI     the TransportCalculator component with its Calendar        *)
(*   SpecParse  the two CSV parsers (parse_csv_invoice, upload_invoice)    *)
(*   SpecChat   the POST /api/chat/stream handler of api.py                *)
(*   SpecChatUI the Chat component of the frontend                         *)
(*   SpecToast  the toast list of App and the Toast timers                 *)
(* SpecUILive is SpecUI with the fairness of its timer.                    *)
(*                                                                         *)
(* Money is counted in tenths of a penny so that round(x, 2) is a real     *)
(* operation; invoice amounts are whole pence.  Calendar dates are the     *)
(* integers 1..NumDates ("2024-01-15", "2024-01-16", ...).                 *)
(***************************************************************************)
EXTENDS Integers, Sequences, FiniteSets, TLC

VARIABLES
    \* ---- LangGraph workflow (SpecGraph)
    input,      \* the initial AgentState handed to app.invoke
    caller,     \* the user on whose behalf the request runs (AgentState has no user field)
    state,      \* the AgentState threaded through the nodes
    node,       \* the node the graph runs next
    trace,      \* the nodes run so far, in order
    \* ---- Qdrant collection tfl_invoices (all specifications)
    ledger,
    \* ---- calculators (SpecCalc)
    calc_in,    \* the arguments of one calculation
    calc_out,   \* its result, None before it ran
    \* ---- write path (SpecStore)
    clock,      \* int(time.time())
    uploads,    \* one record per store request
    \* ---- documented flow (SpecDoc)
    doc_req,    \* the payload of the request being handled
    doc_route,  \* the route chosen by route_request
    doc_next,   \* the node the documented flow runs next
    doc_trace,  \* the nodes run so far for this request
    memory,     \* the conversation_memory collection
    doc_mem0,   \* Len(memory) when the request was received
    doc_loaded, \* memory.conversation_history, as load_memory loaded it
    \* ---- TransportCalculator (SpecUI)
    selectedDates,      \* useState<Date[]>
    uploadedFile,       \* useState<File | null>
    isLoading,          \* useState(false)
    totalCost,          \* useState<number | null>
    enableChat,         \* useState(false)
    sharedInvoiceFile,  \* App's state behind onInvoiceFileShare
    last_toast,         \* the latest showToast(message, type)
    pending,            \* handleCalculate calls suspended in their await (cleared:
                        \* whether Clear was pressed since the call began)
    calc_log,           \* the latest completed calculation, with its inputs
    \* ---- CSV parsers (SpecParse)
    parse_in,   \* the CSV text and the time of the call
    parse_out,  \* what the parsers returned or raised, None before they ran
    \* ---- chat endpoint (SpecChat)
    chat_req,   \* the form of the request: message and file
    chat_pc,    \* the statement the handler runs next
    connected,  \* whether the client still holds the connection
    chat_docs,  \* the documents collection
    llm_calls,  \* llm.invoke calls, each "running", "returned" or "raised"
    read_calls, \* embed_query and client.search calls, each "ok" or "raised"
    sent,       \* the characters the client received
    \* ---- Chat component (SpecChatUI)
    messages,       \* useState<ChatMessage[]>
    inputValue,     \* useState('')
    chat_isLoading, \* the Chat component's useState(false) isLoading
    ragFile,        \* useState<File | null>
    streaming,      \* handleSendMessage calls suspended in an await
    \* ---- toasts (SpecToast)
    toasts,     \* App's useState<ToastMessage[]>, each with the time its timer is due
    date_now    \* Date.now()

graphVars == <<input, caller, state, node, trace>>
calcVars  == <<calc_in, calc_out>>
storeVars == <<clock, uploads>>
docVars   == <<doc_req, doc_route, doc_next, doc_trace, memory, doc_mem0, doc_loaded>>
uiVars    == <<selectedDates, uploadedFile, isLoading, totalCost, enableChat,
               sharedInvoiceFile, last_toast, pending, calc_log>>
parseVars == <<parse_in, parse_out>>
chatVars  == <<chat_req, chat_pc, connected, chat_docs, llm_calls, read_calls, sent>>
chatUiVars == <<messages, inputValue, chat_isLoading, ragFile, streaming>>
toastVars == <<toasts, date_now>>
frontVars == <<chatUiVars, toastVars>>
extVars   == <<uiVars, parseVars, chatVars, frontVars>>
vars      == <<graphVars, ledger, calcVars, storeVars, docVars, extVars>>

-----------------------------------------------------------------------------
(* Bounds *)

NumDates   == 3     \* calendar days 1..NumDates
MaxDates   == 2     \* longest selected_dates list
MaxClock   == 1     \* seconds the clock may advance
MaxUploads == 2     \* store requests in one run
MaxMemory  == 2     \* requests handled in one session of the documented flow

Dates == 1..NumDates

None == <<>>
Some(x) == <<x>>

\* sequences over S of length at most n
RECURSIVE SeqsUpTo(_, _)
SeqsUpTo(S, n) ==
    IF n = 0 THEN {<<>>}
    ELSE LET shorter == SeqsUpTo(S, n - 1)
         IN  shorter \cup {Append(s, x) : s \in {t \in shorter : Len(t) = n - 1}, x \in S}

Range(s) == {s[i] : i \in 1..Len(s)}

-----------------------------------------------------------------------------
(* Money *)

\* round(x, 2): to whole pence, ties to even (Python 3 round)
Round2(x) ==
    LET lo == (x \div 10) * 10
        r  == x - lo
    IN  IF r < 5 THEN lo
        ELSE IF r > 5 THEN lo + 10
        ELSE IF (lo \div 10) % 2 = 0 THEN lo ELSE lo + 10

RECURSIVE SumAmounts(_)
SumAmounts(points) ==
    IF points = {} THEN 0
    ELSE LET p == CHOOSE q \in points : TRUE
         IN  p.amount + SumAmounts(points \ {p})

-----------------------------------------------------------------------------
(* The tfl_invoices collection: a set of points, at most one per point id. *)

\* store_invoice / upload_invoice: one point per transaction, id "<invoice_id>_<i>".
\* src is a ghost field naming the store call that wrote the point.
InvoicePoints(transactions, invoice_id, user_id, src) ==
    { [id           |-> <<invoice_id, i - 1>>,
       invoice_id   |-> invoice_id,
       user_id      |-> user_id,
       date         |-> transactions[i].date,
       amount       |-> transactions[i].amount,
       journey_type |-> transactions[i].journey_type,
       src          |-> src] : i \in 1..Len(transactions) }

\* client.upsert: points with an id already present replace the old point
Upsert(L, points) ==
    {p \in L : p.id \notin {q.id : q \in points}} \cup points

\* client.scroll filtered on invoice_id and user_id (notebook 04)
ScrollInvoiceUser(L, invoice_id, user_id) ==
    {p \in L : p.invoice_id = invoice_id /\ p.user_id = user_id}

\* client.scroll filtered on invoice_id only (LangGraph node)
ScrollInvoice(L, invoice_id) ==
    {p \in L : p.invoice_id = invoice_id}

Tx(d, a, j) == [date |-> d, amount |-> a, journey_type |-> j]

\* three invoices: Scenario A of the specification, a one-row invoice, and a
\* second owner's invoice on overlapping days
FileA == <<Tx(1, 8500, "tube"), Tx(1, 2300, "bus"), Tx(2, 4400, "tube")>>
FileB == <<Tx(1, 5000, "train"), Tx(3, 1200, "bus")>>
FileC == <<Tx(2, 1750, "bus")>>
SampleFiles == {FileA, FileB, FileC}

UserIds == {"u1", "u2"}

LedgerA  == InvoicePoints(FileA, "inv1", "u1", 1)
LedgerB  == InvoicePoints(FileB, "inv2", "u2", 2)
LedgerC  == InvoicePoints(FileC, "inv1", "u2", 3)
SampleLedgers ==
    { {}, LedgerA, Upsert(LedgerA, LedgerB), Upsert(Upsert(LedgerA, LedgerB), LedgerC) }

-----------------------------------------------------------------------------
(* Cost calculation: the three implementations *)

OnDates(points, selected) == {t \in points : t.date \in Range(selected)}

\* per_day[date] += amount over the filtered transactions: only dates that
\* have a filtered transaction get a key
PerDay(filtered) ==
    [d \in {t.date : t \in filtered} |-> SumAmounts({t \in filtered : t.date = d})]

\* filtered = [t for t in transactions if t["date"] in selected_date_strs]
SelectAll(points, selected) == points
FilterSelected(points, selected) == OnDates(points, selected)

\* notebook 04, calculate_cost(invoice_id, selected_dates, user_id)
CalculateCostNb04(L, invoice_id, selected_dates, user_id) ==
    LET transactions == ScrollInvoiceUser(L, invoice_id, user_id)
        filtered     == FilterSelected(transactions, selected_dates)
        total        == SumAmounts(filtered)
    IN  [retrieved |-> transactions,
         result    |-> [total_amount       |-> Round2(total),
                        selected_dates     |-> selected_dates,
                        per_day_breakdown  |-> PerDay(filtered),
                        transactions_count |-> Cardinality(filtered)]]

\* notebook 05, the calculate_cost node: returns the updated AgentState
CalculateCostNode(st, L) ==
    IF st.invoice_id = "none" \/ st.selected_dates = <<>>
    THEN [st EXCEPT !.response = "Error: Missing invoice_id or selected_dates"]
    ELSE LET transactions == ScrollInvoice(L, st.invoice_id)
             filtered     == FilterSelected(transactions, st.selected_dates)
             total        == SumAmounts(filtered)
         IN  [st EXCEPT !.calculated_amount = Some(Round2(total)),
                        !.cost_breakdown =
                            Some([total_amount       |-> Round2(total),
                                  per_day_breakdown  |-> PerDay(filtered),
                                  transactions_count |-> Cardinality(filtered)]),
                        !.response = "Total cost for selected dates"]

\* the rows of an uploaded CSV as a set (row index keeps equal rows apart)
RowSet(file) ==
    {[idx |-> i, date |-> file[i].date, amount |-> file[i].amount,
      journey_type |-> file[i].journey_type] : i \in 1..Len(file)}

\* api.py, POST /api/transport/calculate: computed from the uploaded file
CalculateCostApi(file, selected_dates) ==
    LET df       == RowSet(file)
        filtered == FilterSelected(df, selected_dates)
        total    == SumAmounts(filtered)
        per_day  == PerDay(filtered)
    IN  [retrieved |-> df,
         result    |-> [total_cost     |-> Round2(total),
                        breakdown      |-> [d \in DOMAIN per_day |-> Round2(per_day[d])],
                        selected_dates |-> selected_dates]]

-----------------------------------------------------------------------------
(* The LangGraph workflow (notebooks 05 and 06) *)

Texts == {"what is ai", "explain my invoice"}

\* "invoice" in query.lower()
MentionsInvoice(text) == text = "explain my invoice"

Human(text) == [role |-> "human", content |-> text]
AI(text)    == [role |-> "ai", content |-> text]

RequestTypes == {"general_rag", "tfl_invoice", "tfl_calculation", "tfl_chat"}

\* the documents collection searched by retrieve_documents (at most 5 hits)
Documents == {"doc about ai", "doc about fares"}

\* the AgentState a caller passes to app.invoke (cells "Test RAG flow" and
\* "Test TFL calculation flow")
AgentState(in) ==
    [messages          |-> in.messages,
     query             |-> in.query,
     request_type      |-> in.request_type,
     route_path        |-> "none",
     retrieved_docs    |-> {},
     context           |-> {},
     invoice_id        |-> in.invoice_id,
     selected_dates    |-> in.selected_dates,
     calculated_amount |-> None,
     cost_breakdown    |-> None,
     response          |-> ""]

Inputs ==
    [messages       : {<<>>} \cup {<<Human(t)>> : t \in Texts},
     query          : {""},
     request_type   : RequestTypes,
     invoice_id     : {"none", "inv1", "inv2"},
     selected_dates : SeqsUpTo(Dates, MaxDates)]

\* receive_query
receive_query(st) ==
    IF st.messages = <<>> THEN st
    ELSE LET query == st.messages[Len(st.messages)].content
             t1 == IF MentionsInvoice(query) \/ st.invoice_id # "none"
                   THEN "tfl_chat" ELSE "general_rag"
             t2 == IF st.selected_dates # <<>> THEN "tfl_calculation" ELSE t1
         IN  [st EXCEPT !.query = query, !.request_type = t2]

\* route_request
route_request(st) ==
    [st EXCEPT !.route_path =
        CASE st.request_type = "tfl_invoice"     -> "process_tfl_invoice"
          [] st.request_type = "tfl_calculation" -> "calculate_cost"
          [] st.request_type = "tfl_chat"        -> "tfl_chat"
          [] OTHER                               -> "rag_flow"]

\* route_decision, the conditional edge out of route_request
route_decision(st) ==
    IF st.route_path = "calculate_cost" THEN "calculate_cost"
    ELSE IF st.route_path = "rag_flow" THEN "retrieve_documents"
    ELSE "generate_response"

GraphInit ==
    /\ input \in Inputs
    /\ caller \in UserIds
    /\ state = AgentState(input)
    /\ node = "receive_query"
    /\ trace = <<>>

Ran(n) == trace' = Append(trace, n)

GraphFrame == UNCHANGED <<input, caller, ledger, calcVars, storeVars, docVars, extVars>>

ReceiveQuery ==
    /\ node = "receive_query"
    /\ state' = receive_query(state)
    /\ node' = "route_request"
    /\ Ran("receive_query")
    /\ GraphFrame

RouteRequest ==
    /\ node = "route_request"
    /\ state' = route_request(state)
    /\ node' = route_decision(state')
    /\ Ran("route_request")
    /\ GraphFrame

RetrieveDocuments ==
    /\ node = "retrieve_documents"
    /\ state' = [state EXCEPT !.retrieved_docs = Documents]
    /\ node' = "format_context"
    /\ Ran("retrieve_documents")
    /\ GraphFrame

FormatContext ==
    /\ node = "format_context"
    /\ state' = [state EXCEPT !.context = state.retrieved_docs]
    /\ node' = "generate_response"
    /\ Ran("format_context")
    /\ GraphFrame

\* generate_response: llm.invoke answers, or raises and the invocation ends
GenerateResponse ==
    /\ node = "generate_response"
    /\ Ran("generate_response")
    /\ \/ /\ state' = [state EXCEPT !.response = "answer",
                                    !.messages = Append(@, AI("answer"))]
          /\ node' = "END"
       \/ /\ state' = state
          /\ node' = "RAISED"
    /\ GraphFrame

CalculateCost ==
    /\ node = "calculate_cost"
    /\ state' = CalculateCostNode(state, ledger)
    /\ node' = "END"
    /\ Ran("calculate_cost")
    /\ GraphFrame

-----------------------------------------------------------------------------
(* Idle values of the parts a specification does not run *)

GraphIdle ==
    /\ input = [messages |-> <<>>, query |-> "", request_type |-> "general_rag",
                invoice_id |-> "none", selected_dates |-> <<>>]
    /\ caller = "u1"
    /\ state = AgentState(input)
    /\ node = "END"
    /\ trace = <<>>

CalcIdle ==
    /\ calc_in = [invoice_id |-> "none", user |-> "u1", selected_dates |-> <<>>,
                  file |-> <<>>]
    /\ calc_out = None

StoreIdle ==
    /\ clock = 0
    /\ uploads = <<>>

DocIdle ==
    /\ doc_req = [file |-> FALSE, dates |-> FALSE, text |-> "none", invoice_id |-> FALSE,
                  session |-> "s1"]
    /\ doc_route = "none"
    /\ doc_next = "END"
    /\ doc_trace = <<>>
    /\ memory = <<>>
    /\ doc_mem0 = 0
    /\ doc_loaded = <<>>

UiIdle ==
    /\ selectedDates = <<>>
    /\ uploadedFile = None
    /\ isLoading = FALSE
    /\ totalCost = None
    /\ enableChat = FALSE
    /\ sharedInvoiceFile = None
    /\ last_toast = None
    /\ pending = <<>>
    /\ calc_log = None

ParseIdle ==
    /\ parse_in = [rows |-> <<>>, has_timestamp |-> TRUE, now |-> 0]
    /\ parse_out = None

ChatIdle ==
    /\ chat_req = [message |-> "what is ai", file |-> "none", session_id |-> "none", now |-> 0]
    /\ chat_pc = "done"
    /\ connected = FALSE
    /\ chat_docs = {}
    /\ llm_calls = <<>>
    /\ read_calls = <<>>
    /\ sent = 0

ChatUiIdle ==
    /\ messages = <<>>
    /\ inputValue = <<>>
    /\ chat_isLoading = FALSE
    /\ ragFile = None
    /\ streaming = <<>>

ToastIdle ==
    /\ toasts = <<>>
    /\ date_now = 0

FrontIdle == ChatUiIdle /\ ToastIdle

ExtIdle == UiIdle /\ ParseIdle /\ ChatIdle /\ FrontIdle

InitGraph ==
    /\ GraphInit
    /\ ledger \in SampleLedgers
    /\ CalcIdle /\ StoreIdle /\ DocIdle /\ ExtIdle

NextGraph ==
    \/ ReceiveQuery
    \/ RouteRequest
    \/ RetrieveDocuments
    \/ FormatContext
    \/ GenerateResponse
    \/ CalculateCost

SpecGraph == InitGraph /\ [][NextGraph]_vars

-----------------------------------------------------------------------------
(* SpecCalc: one calculation, by each of the three implementations *)

CalcInputs ==
    [invoice_id     : {"none", "inv1", "inv2"},
     user           : UserIds,
     selected_dates : SeqsUpTo(Dates, MaxDates),
     file           : SampleFiles]

CalcFrame == UNCHANGED <<graphVars, ledger, calc_in, storeVars, docVars, extVars>>

\* notebook 04: calculate_cost(invoice_id, selected_dates, user_id)
CalcNb04 ==
    /\ calc_out = None
    /\ LET r == CalculateCostNb04(ledger, calc_in.invoice_id, calc_in.selected_dates,
                                  calc_in.user)
       IN  calc_out' = Some([variant   |-> "nb04",
                             retrieved |-> r.retrieved,
                             total     |-> Some(r.result.total_amount),
                             per_day   |-> Some(r.result.per_day_breakdown),
                             result    |-> r.result])
    /\ CalcFrame

\* notebook 05: the calculate_cost node on a fresh AgentState
CalcNode ==
    /\ calc_out = None
    /\ LET st0 == AgentState([messages |-> <<>>, query |-> "",
                              request_type |-> "tfl_calculation",
                              invoice_id |-> calc_in.invoice_id,
                              selected_dates |-> calc_in.selected_dates])
           st1 == CalculateCostNode(st0, ledger)
           ran == st1.cost_breakdown # None
       IN  calc_out' = Some([variant   |-> "node",
                             retrieved |-> IF ran THEN ScrollInvoice(ledger, st0.invoice_id)
                                           ELSE {},
                             total     |-> st1.calculated_amount,
                             per_day   |-> IF ran
                                           THEN Some(st1.cost_breakdown[1].per_day_breakdown)
                                           ELSE None,
                             result    |-> IF ran THEN st1.cost_breakdown[1]
                                           ELSE [response |-> st1.response]])
    /\ CalcFrame

\* api.py: POST /api/transport/calculate with a file and a dates form field
CalcApi ==
    /\ calc_out = None
    /\ LET r == CalculateCostApi(calc_in.file, calc_in.selected_dates)
       IN  calc_out' = Some([variant   |-> "api",
                             retrieved |-> r.retrieved,
                             total     |-> Some(r.result.total_cost),
                             per_day   |-> Some(r.result.breakdown),
                             result    |-> r.result])
    /\ CalcFrame

InitCalc ==
    /\ calc_in \in CalcInputs
    /\ calc_out = None
    /\ ledger \in SampleLedgers
    /\ GraphIdle /\ StoreIdle /\ DocIdle /\ ExtIdle

NextCalc ==
    \/ CalcNb04
    \/ CalcNode
    \/ CalcApi

SpecCalc == InitCalc /\ [][NextCalc]_vars

-----------------------------------------------------------------------------
(* SpecStore: the invoice write path *)

Slots == 1..MaxUploads

\* the user_id form field: absent ("none") or given
FormUsers == {"none", "u1"}

\* user_id or 'default'
UserOrDefault(u) == IF u = "none" THEN "default" ELSE u

\* uploaded files: three CSV files and one that is not a CSV
UploadFiles ==
    {[csv |-> TRUE, rows |-> f] : f \in SampleFiles} \cup {[csv |-> FALSE, rows |-> FileA]}

\* f"invoice_{user_id or 'default'}_{int(time.time())}"
UploadInvoiceId(u, now) == <<"invoice", UserOrDefault(u), now>>

\* invoice ids a notebook user passes to store_invoice ("invoice_001")
NotebookInvoiceIds == {<<"invoice", "001", 0>>}

NoInvoiceId == <<"invoice", "none", 0>>

IdleUpload ==
    [phase |-> "idle", kind |-> "none", user |-> "none", rows |-> <<>>, csv |-> TRUE,
     invoice_id |-> NoInvoiceId]

StoreFrame == UNCHANGED <<graphVars, calcVars, docVars, extVars>>

\* a second passes
Tick ==
    /\ clock < MaxClock
    /\ clock' = clock + 1
    /\ UNCHANGED <<ledger, uploads>>
    /\ StoreFrame

\* upload_invoice up to `contents = await file.read()`
UploadRead(r, u, f) ==
    /\ uploads[r].phase = "idle"
    /\ uploads' = [uploads EXCEPT ![r] =
                     [phase |-> "reading", kind |-> "api", user |-> u,
                      rows |-> f.rows, csv |-> f.csv, invoice_id |-> NoInvoiceId]]
    /\ UNCHANGED <<ledger, clock>>
    /\ StoreFrame

\* upload_invoice: return {"error": "Only CSV supported for MVP"}
UploadReject(r) ==
    /\ uploads[r].phase = "reading"
    /\ ~uploads[r].csv
    /\ uploads' = [uploads EXCEPT ![r].phase = "rejected"]
    /\ UNCHANGED <<ledger, clock>>
    /\ StoreFrame

\* upload_invoice: embed_query or upsert raises; nothing was written
UploadFail(r) ==
    /\ uploads[r].phase = "reading"
    /\ uploads[r].csv
    /\ uploads' = [uploads EXCEPT ![r].phase = "failed",
                                  ![r].invoice_id = UploadInvoiceId(uploads[r].user, clock)]
    /\ UNCHANGED <<ledger, clock>>
    /\ StoreFrame

\* upload_invoice: parse, embed every row, then one client.upsert of all points
UploadStore(r) ==
    /\ uploads[r].phase = "reading"
    /\ uploads[r].csv
    /\ LET invoice_id == UploadInvoiceId(uploads[r].user, clock)
       IN  /\ ledger' = Upsert(ledger,
                               InvoicePoints(uploads[r].rows, invoice_id,
                                             UserOrDefault(uploads[r].user), r))
           /\ uploads' = [uploads EXCEPT ![r].phase = "stored",
                                         ![r].invoice_id = invoice_id]
    /\ UNCHANGED clock
    /\ StoreFrame

\* notebook 04: store_invoice(transactions, invoice_id, user_id), which either
\* raises while embedding or upserts all points in one call
NotebookStore(r, rows, invoice_id, u, ok) ==
    /\ uploads[r].phase = "idle"
    /\ uploads' = [uploads EXCEPT ![r] =
                     [phase |-> IF ok THEN "stored" ELSE "failed", kind |-> "nb04",
                      user |-> u, rows |-> rows, csv |-> TRUE, invoice_id |-> invoice_id]]
    /\ ledger' = IF ok THEN Upsert(ledger, InvoicePoints(rows, invoice_id, u, r))
                 ELSE ledger
    /\ UNCHANGED clock
    /\ StoreFrame

InitStore ==
    /\ clock = 0
    /\ uploads = [r \in Slots |-> IdleUpload]
    /\ ledger = {}
    /\ GraphIdle /\ CalcIdle /\ DocIdle /\ ExtIdle

NextStore ==
    \/ Tick
    \/ \E r \in Slots, u \in FormUsers, f \in UploadFiles : UploadRead(r, u, f)
    \/ \E r \in Slots : UploadReject(r)
    \/ \E r \in Slots : UploadFail(r)
    \/ \E r \in Slots : UploadStore(r)
    \/ \E r \in Slots, rows \in SampleFiles, id \in NotebookInvoiceIds,
          u \in {"default", "u1"}, ok \in BOOLEAN : NotebookStore(r, rows, id, u, ok)

SpecStore == InitStore /\ [][NextStore]_vars

-----------------------------------------------------------------------------
(* SpecDoc: the flow documented in backend/LANGGRAPH_FLOW.md *)

Sessions == {"s1", "s2"}

\* memory_window: the number of previous messages load_memory includes
MemoryWindow == 1

\* what a request carries: an invoice file, selected dates, a free-text query
\* ("plain", or "invoice" when it refers to an invoice), an invoice_id, and
\* the session it belongs to
DocPayloads ==
    {q \in [file : BOOLEAN, dates : BOOLEAN, text : {"none", "plain", "invoice"},
            invoice_id : BOOLEAN, session : Sessions] :
        q.file \/ q.dates \/ q.text # "none"}

\* Session-Based Retrieval: all messages of the session, ordered by timestamp,
\* limited to the recent n
LoadOldest(mem, session, n) ==
    LET all == SelectSeq(mem, LAMBDA e : e.session_id = session)
    IN  SubSeq(all, 1, IF Len(all) < n THEN Len(all) ELSE n)
LoadRecent(mem, session, n) ==
    LET all == SelectSeq(mem, LAMBDA e : e.session_id = session)
    IN  SubSeq(all, IF Len(all) > n THEN Len(all) - n + 1 ELSE 1, Len(all))

\* route_request, "Determine routing path", with Pattern 8 for dates plus a query
DocRoute(q) ==
    IF q.file THEN "tfl_invoice"
    ELSE IF q.dates THEN (IF q.text = "none" THEN "tfl_calculation"
                          ELSE "tfl_calculation_chat")
    ELSE IF q.text = "invoice" \/ q.invoice_id THEN "tfl_chat"
    ELSE "general_rag"

\* the nodes after route_request: Routing Edges and Patterns 1, 5, 6, 7, 8, 9
DocFlowBase(route, q) ==
    CASE route = "tfl_invoice" /\ ~q.dates ->
            <<"process_tfl_invoice", "update_memory", "return_response">>
      [] route = "tfl_invoice" /\ q.dates ->
            <<"process_tfl_invoice", "process_selected_dates", "calculate_commute_cost",
              "format_tfl_response", "update_memory", "return_response">>
      [] route = "tfl_calculation" ->
            <<"process_selected_dates", "calculate_commute_cost", "format_tfl_response",
              "return_response">>
      [] route = "tfl_chat" ->
            <<"load_memory", "retrieve_tfl_invoice", "format_tfl_context",
              "generate_response", "update_memory", "format_tfl_response",
              "return_response">>
      [] route = "tfl_calculation_chat" ->
            <<"load_memory", "process_selected_dates", "calculate_commute_cost",
              "retrieve_tfl_invoice", "format_tfl_context", "generate_response",
              "update_memory", "format_tfl_response", "return_response">>
      [] OTHER ->
            <<"load_memory", "retrieve_documents", "format_context", "generate_response",
              "update_memory", "return_response">>

\* the calculation route with the memory update of the other routes
DocFlowCalcSavesMemory(route, q) ==
    IF route = "tfl_calculation"
    THEN <<"process_selected_dates", "calculate_commute_cost", "format_tfl_response",
           "update_memory", "return_response">>
    ELSE DocFlowBase(route, q)
DocFlow(route, q) == DocFlowBase(route, q)

\* the node that follows n on the request's path
DocSucc(q, n) ==
    LET flow == DocFlow(DocRoute(q), q)
    IN  IF n = "receive_query" THEN "route_request"
        ELSE IF n = "route_request" THEN flow[1]
        ELSE IF n = "return_response" THEN "END"
        ELSE flow[(CHOOSE i \in 1..Len(flow) : flow[i] = n) + 1]

DocFrame == UNCHANGED <<graphVars, ledger, calcVars, storeVars, extVars>>

\* a node of the documented flow that leaves the memory alone
DocStep(n) ==
    /\ doc_next = n
    /\ doc_trace' = Append(doc_trace, n)
    /\ doc_next' = DocSucc(doc_req, n)
    /\ UNCHANGED <<doc_req, doc_mem0>>
    /\ DocFrame

DocReceiveQuery ==
    DocStep("receive_query") /\ UNCHANGED <<doc_route, memory, doc_loaded>>

DocRouteRequest ==
    /\ DocStep("route_request")
    /\ doc_route' = DocRoute(doc_req)
    /\ UNCHANGED <<memory, doc_loaded>>

DocProcessTflInvoice ==
    DocStep("process_tfl_invoice") /\ UNCHANGED <<doc_route, memory, doc_loaded>>

DocProcessSelectedDates ==
    DocStep("process_selected_dates") /\ UNCHANGED <<doc_route, memory, doc_loaded>>

DocCalculateCommuteCost ==
    DocStep("calculate_commute_cost") /\ UNCHANGED <<doc_route, memory, doc_loaded>>

\* load_memory: retrieve the last N messages of the session
DocLoadMemory ==
    /\ DocStep("load_memory")
    /\ doc_loaded' = LoadRecent(memory, doc_req.session, MemoryWindow)
    /\ UNCHANGED <<doc_route, memory>>

DocRetrieveTflInvoice ==
    DocStep("retrieve_tfl_invoice") /\ UNCHANGED <<doc_route, memory, doc_loaded>>

DocFormatTflContext ==
    DocStep("format_tfl_context") /\ UNCHANGED <<doc_route, memory, doc_loaded>>

DocRetrieveDocuments ==
    DocStep("retrieve_documents") /\ UNCHANGED <<doc_route, memory, doc_loaded>>

DocFormatContext ==
    DocStep("format_context") /\ UNCHANGED <<doc_route, memory, doc_loaded>>

DocGenerateResponse ==
    DocStep("generate_response") /\ UNCHANGED <<doc_route, memory, doc_loaded>>

\* update_memory: create a memory entry and persist it
DocUpdateMemory ==
    /\ DocStep("update_memory")
    /\ memory' = Append(memory,
                        [user_query         |-> doc_req.text,
                         assistant_response |-> IF "generate_response" \in Range(doc_trace)
                                                THEN "answer" ELSE "none",
                         session_id         |-> doc_req.session,
                         timestamp          |-> Len(memory) + 1,
                         route              |-> doc_route])
    /\ UNCHANGED <<doc_route, doc_loaded>>

DocFormatTflResponse ==
    DocStep("format_tfl_response") /\ UNCHANGED <<doc_route, memory, doc_loaded>>

DocReturnResponse ==
    DocStep("return_response") /\ UNCHANGED <<doc_route, memory, doc_loaded>>

\* the next request of the session arrives
DocNewRequest ==
    /\ doc_next = "END"
    /\ Len(memory) < MaxMemory
    /\ doc_req' \in DocPayloads
    /\ doc_route' = "none"
    /\ doc_next' = "receive_query"
    /\ doc_trace' = <<>>
    /\ doc_mem0' = Len(memory)
    /\ doc_loaded' = <<>>
    /\ UNCHANGED memory
    /\ DocFrame

InitDoc ==
    /\ doc_req \in DocPayloads
    /\ doc_route = "none"
    /\ doc_next = "receive_query"
    /\ doc_trace = <<>>
    /\ memory = <<>>
    /\ doc_mem0 = 0
    /\ doc_loaded = <<>>
    /\ ledger = {}
    /\ GraphIdle /\ CalcIdle /\ StoreIdle /\ ExtIdle

NextDoc ==
    \/ DocReceiveQuery
    \/ DocRouteRequest
    \/ DocProcessTflInvoice
    \/ DocProcessSelectedDates
    \/ DocCalculateCommuteCost
    \/ DocLoadMemory
    \/ DocRetrieveTflInvoice
    \/ DocFormatTflContext
    \/ DocRetrieveDocuments
    \/ DocFormatContext
    \/ DocGenerateResponse
    \/ DocUpdateMemory
    \/ DocFormatTflResponse
    \/ DocReturnResponse
    \/ DocNewRequest

SpecDoc == InitDoc /\ [][NextDoc]_vars

-----------------------------------------------------------------------------
(* Claims on the LangGraph workflow *)

HasFile(in)  == in.request_type = "tfl_invoice"   \* the caller marks an upload
HasDates(in) == in.selected_dates # <<>>
HasText(in)  == in.messages # <<>>

RanNode(n)   == n \in Range(trace)
Classified   == RanNode("route_request")

\* i-th node of the trace is preceded by a run of node n
Before(n, i) == \E j \in 1..(i - 1) : trace[j] = n

\* C1: a payload that carries an invoice file is classified as an invoice
\* upload whatever else it carries, and a cost calculation for it runs only
\* after the upload step.
C1_UploadPrecedence ==
    HasFile(input) =>
        /\ Classified => /\ state.request_type = "tfl_invoice"
                         /\ state.route_path = "process_tfl_invoice"
        /\ \A i \in 1..Len(trace) :
              trace[i] = "calculate_cost" => Before("process_tfl_invoice", i)

\* C2: without a file, a date selection together with a text query runs both
\* the cost calculation and the generation.
C2_CombinedRunsBoth ==
    (node = "END" /\ ~HasFile(input) /\ HasDates(input) /\ HasText(input)) =>
        /\ RanNode("calculate_cost")
        /\ RanNode("generate_response")

BranchNodes ==
    {"retrieve_documents", "format_context", "generate_response", "calculate_cost"}

\* C3: a finished request went through received, classified, one branch and
\* the memory update, in this order, before it was answered.
C3_RouterStateOrder ==
    node = "END" =>
        /\ Len(trace) >= 4
        /\ trace[1] = "receive_query"
        /\ trace[2] = "route_request"
        /\ \A i \in 3..(Len(trace) - 1) : trace[i] \in BranchNodes
        /\ trace[Len(trace)] = "update_memory"

\* C4: neither the cost-calculation path nor an upload without a text query
\* ever invokes the generation.
C4_NoGenerationOnMechanicalPaths ==
    (\/ state.route_path = "calculate_cost"
     \/ (HasFile(input) /\ ~HasText(input))) => ~RanNode("generate_response")

\* C6: generation is reached only after retrieval and then context
\* formatting have run.
C6_StagesOrdered ==
    \A i \in 1..Len(trace) :
        trace[i] = "generate_response" =>
            \E f \in 1..(i - 1) :
                /\ trace[f] = "format_context"
                /\ Before("retrieve_documents", f)

-----------------------------------------------------------------------------
(* Claims on the calculators *)

CalcDone == calc_out # None
Out == calc_out[1]

\* C7: a calculation for owner o reads only o's transactions, also when the
\* invoice id belongs to another owner.
C7_OwnerIsolation ==
    (CalcDone /\ Out.variant \in {"nb04", "node"}) =>
        \A t \in Out.retrieved : t.user_id = calc_in.user

\* the unmatchedDates a result reports: none of the three results has the field
UnmatchedDates(result) ==
    IF "unmatchedDates" \in DOMAIN result THEN result.unmatchedDates ELSE {}

NoTransactionOn(d) == \A t \in Out.retrieved : t.date # d

\* C9: every selected date without a transaction is listed in unmatchedDates
\* with a daily total of 0, and no selected date with a transaction is.
C9_UnmatchedDatesSurfaced ==
    (CalcDone /\ Out.total # None) =>
        \A d \in Range(calc_in.selected_dates) :
            IF NoTransactionOn(d)
            THEN /\ d \in UnmatchedDates(Out.result)
                 /\ d \in DOMAIN Out.per_day[1] => Out.per_day[1][d] = 0
            ELSE d \notin UnmatchedDates(Out.result)

DayTotal(T, d) == SumAmounts({t \in T : t.date = d})

RECURSIVE SumOverDates(_, _)
SumOverDates(T, D) ==
    IF D = {} THEN 0
    ELSE LET d == CHOOSE x \in D : TRUE
         IN  DayTotal(T, d) + SumOverDates(T, D \ {d})

RECURSIVE SumValues(_, _)
SumValues(f, D) ==
    IF D = {} THEN 0
    ELSE LET d == CHOOSE x \in D : TRUE
         IN  f[d] + SumValues(f, D \ {d})

-----------------------------------------------------------------------------
(* Claims on the write path *)

\* what getByInvoice returns of the transactions written by store request r
VisibleOf(r) ==
    {p \in ScrollInvoiceUser(ledger, uploads[r].invoice_id, UserOrDefault(uploads[r].user)) :
        p.src = r}

\* C8: whatever the state of a store request (reading, failed, stored) and of
\* the other requests, getByInvoice returns none or all of its transactions.
C8_StoreAllOrNothing ==
    \A r \in Slots :
        uploads[r].phase # "idle" =>
            \/ VisibleOf(r) = {}
            \/ Cardinality(VisibleOf(r)) = Len(uploads[r].rows)

-----------------------------------------------------------------------------
(* Claims on the documented flow *)

-----------------------------------------------------------------------------
(* Claims on the calculators, continued *)

\* the daily price cap in force (cost_calculation_daily_cap_enabled, default
\* true): 8.00 pounds, as in Scenario D of the specification
DailyCap == 8000

\* the clamp record of a day in a result: none of the three results has one
Clamped(result, d) ==
    IF "clamped" \in DOMAIN result THEN d \in result.clamped ELSE FALSE

\* C11: with the daily cap configured, a selected day whose raw sum exceeds
\* the cap has the cap as its daily total and is flagged as clamped; a day
\* within the cap has its raw sum as daily total and is not flagged.
C11_CapVisibility ==
    (CalcDone /\ Out.total # None) =>
        \A d \in DOMAIN Out.per_day[1] :
            LET raw == DayTotal(Out.retrieved, d)
            IN  IF raw > DailyCap
                THEN Out.per_day[1][d] = DailyCap /\ Clamped(Out.result, d)
                ELSE Out.per_day[1][d] = raw /\ ~Clamped(Out.result, d)

\* C12: a calculation with an empty date selection (for an invoice that is
\* named) completes with a breakdown: total 0, no day in the per-day map and
\* no unmatched date; it does not report an error.
C12_EmptySelectionIsZero ==
    (/\ CalcDone
     /\ calc_in.selected_dates = <<>>
     /\ Out.variant = "node" => calc_in.invoice_id # "none") =>
        /\ Out.total = Some(0)
        /\ Out.per_day # None
        /\ DOMAIN Out.per_day[1] = {}
        /\ UnmatchedDates(Out.result) = {}

IsSortedNoDup(s) == \A i, j \in 1..Len(s) : i < j => s[i] < s[j]

\* C14: the date list a calculation works on and returns is the normalized
\* selection: sorted ascending and without duplicates.
C14_SelectionNormalized ==
    (CalcDone /\ "selected_dates" \in DOMAIN Out.result) =>
        IsSortedNoDup(Out.result.selected_dates)

-----------------------------------------------------------------------------
(* SpecUI: the TransportCalculator component and its Calendar *)

CalendarDays == 2   \* day cells of the displayed month that can be clicked

\* Calendar.tsx renderCells: the clickable cells, one local-midnight Date each
Cells == 1..CalendarDays

UiFiles == {FileA, FileC}

\* Math.random() * 10, in tenths of a penny: some values of [0, 10)
RandomDraws == {0, 4200}

\* the sign of the browser's offset from UTC (Date cells hold local midnight)
TzOffsets == {0, 1}

\* selectedDates.length * 5.75
MockDayRate == 5750

Toast(message, type) == Some([message |-> message, type |-> type])

\* d.toISOString().split('T')[0] of a local-midnight Date: the UTC calendar
\* day, which is the day before when local time is ahead of UTC
IsoDay(d, tz) == IF tz > 0 THEN d - 1 ELSE d

RemoveAt(s, i) == [j \in 1..(Len(s) - 1) |-> IF j < i THEN s[j] ELSE s[j + 1]]

\* a click that only appends the day
AppendDay(dates, day) == Append(dates, day)

\* Calendar.tsx handleDateClick: toggle the day, then sort by getTime()
ToggleDay(dates, day) ==
    LET found    == {i \in 1..Len(dates) : dates[i] = day}
        newDates == IF found # {}
                    THEN RemoveAt(dates, CHOOSE i \in found : \A j \in found : i <= j)
                    ELSE Append(dates, day)
    IN  SortSeq(newDates, LAMBDA a, b : a < b)

\* a Calculate button that stays enabled while a calculation is loading
ButtonIgnoresLoading == uploadedFile = None \/ selectedDates = <<>>

isButtonDisabled == uploadedFile = None \/ selectedDates = <<>> \/ isLoading

UiFrame == UNCHANGED <<graphVars, ledger, calcVars, storeVars, docVars, parseVars, chatVars,
                       frontVars>>

\* a click on a day cell of the current month
HandleDateClick(day) ==
    /\ selectedDates' = ToggleDay(selectedDates, day)
    /\ UNCHANGED <<uploadedFile, isLoading, totalCost, enableChat, sharedInvoiceFile,
                   last_toast, pending, calc_log>>
    /\ UiFrame

\* an upload that never reaches the chat
KeepShared(enabled, file, shared) == shared

\* handleFileUpload: if (enableChat) onInvoiceFileShare(file)
ShareOnUpload(enabled, file, shared) == IF enabled THEN Some(file) ELSE shared

HandleFileUpload(file) ==
    /\ uploadedFile' = Some(file)
    /\ sharedInvoiceFile' = ShareOnUpload(enableChat, file, sharedInvoiceFile)
    /\ UNCHANGED <<selectedDates, isLoading, totalCost, enableChat, last_toast, pending,
                   calc_log>>
    /\ UiFrame

HandleFileRemove ==
    /\ uploadedFile' = None
    /\ sharedInvoiceFile' = None
    /\ UNCHANGED <<selectedDates, isLoading, totalCost, enableChat, last_toast, pending,
                   calc_log>>
    /\ UiFrame

HandleToggleChat(enabled) ==
    /\ enableChat' = enabled
    /\ IF enabled /\ uploadedFile # None
       THEN /\ sharedInvoiceFile' = uploadedFile
            /\ last_toast' = Toast("Chat enabled with uploaded invoice", "success")
       ELSE /\ sharedInvoiceFile' = None
            /\ last_toast' = Toast("Chat disabled", "success")
    /\ UNCHANGED <<selectedDates, uploadedFile, isLoading, totalCost, pending, calc_log>>
    /\ UiFrame

HandleClear ==
    /\ selectedDates' = <<>>
    /\ uploadedFile' = None
    /\ totalCost' = None
    /\ enableChat' = FALSE
    /\ sharedInvoiceFile' = None
    /\ last_toast' = Toast("Selection cleared", "success")
    /\ pending' = [i \in 1..Len(pending) |-> [pending[i] EXCEPT !.cleared = TRUE]]
    /\ UNCHANGED <<isLoading, calc_log>>
    /\ UiFrame

\* a click on Calculate (the button is disabled while isButtonDisabled):
\* handleCalculate up to its await
HandleCalculate(tz) ==
    /\ ~isButtonDisabled
    /\ IF uploadedFile = None \/ selectedDates = <<>>
       THEN /\ last_toast' = Toast("Please upload an invoice and select dates.", "error")
            /\ UNCHANGED <<isLoading, totalCost, pending>>
       ELSE /\ isLoading' = TRUE
            /\ totalCost' = None
            /\ pending' = Append(pending,
                                 [file  |-> uploadedFile[1],
                                  dates |-> selectedDates,
                                  cleared |-> FALSE,
                                  form  |-> [i \in 1..Len(selectedDates) |->
                                                IsoDay(selectedDates[i], tz)]])
            /\ UNCHANGED last_toast
    /\ UNCHANGED <<selectedDates, uploadedFile, enableChat, sharedInvoiceFile, calc_log>>
    /\ UiFrame

\* the 2 s timer of a suspended handleCalculate fires: the rest of the handler
\* (the fetch is commented out; nothing in the try block can throw)
CalculateResolve(random) ==
    /\ pending # <<>>
    /\ LET call       == Head(pending)
           mockResult == [totalCost |-> Len(call.dates) * MockDayRate + random]
       IN  /\ totalCost' = Some(mockResult.totalCost)
           /\ calc_log' = Some([file |-> call.file, dates |-> call.dates,
                                totalCost |-> mockResult.totalCost])
    /\ last_toast' = Toast("Calculation successful!", "success")
    /\ isLoading' = FALSE
    /\ pending' = Tail(pending)
    /\ UNCHANGED <<selectedDates, uploadedFile, enableChat, sharedInvoiceFile>>
    /\ UiFrame

InitUI ==
    /\ selectedDates = <<>>
    /\ uploadedFile = None
    /\ isLoading = FALSE
    /\ totalCost = None
    /\ enableChat = FALSE
    /\ sharedInvoiceFile = None
    /\ last_toast = None
    /\ pending = <<>>
    /\ calc_log = None
    /\ ledger = {}
    /\ GraphIdle /\ CalcIdle /\ StoreIdle /\ DocIdle /\ ParseIdle /\ ChatIdle /\ FrontIdle

NextUI ==
    \/ \E day \in Cells : HandleDateClick(day)
    \/ \E file \in UiFiles : HandleFileUpload(file)
    \/ HandleFileRemove
    \/ \E enabled \in BOOLEAN : HandleToggleChat(enabled)
    \/ HandleClear
    \/ \E tz \in TzOffsets : HandleCalculate(tz)
    \/ \E random \in RandomDraws : CalculateResolve(random)

SpecUI == InitUI /\ [][NextUI]_vars

\* the browser runs every timer that is due: the 2 s timer of a suspended
\* handleCalculate fires
SpecUILive == SpecUI /\ WF_vars(\E random \in RandomDraws : CalculateResolve(random))

-----------------------------------------------------------------------------
(* Claims on the calculation the UI runs *)

SameInputs(a, b) == a.file = b.file /\ a.dates = b.dates

\* C13: two calculations on the same invoice and the same dates yield the
\* same result, whatever happened between them.
C13_CalculationDeterminism ==
    [][(calc_log # None /\ calc_log' # None /\ SameInputs(calc_log[1], calc_log'[1]))
          => calc_log'[1].totalCost = calc_log[1].totalCost]_vars

-----------------------------------------------------------------------------
(* SpecParse: the two CSV parsers, applied to one CSV text *)

MaxRows == 3    \* longest CSV, in rows

\* the cells of a CSV row as text: a date, a number, nothing, or other text
DateCell(d) == [kind |-> "date", val |-> d]
NumCell(a)  == [kind |-> "num", val |-> a]
EmptyCell   == [kind |-> "empty", val |-> 0]
TextCell    == [kind |-> "text", val |-> 0]
NaN         == [kind |-> "nan", val |-> 0]

RawRows == [date : {DateCell(1), EmptyCell}, amount : {NumCell(1750), EmptyCell, TextCell}]

CsvFiles == SeqsUpTo(RawRows, MaxRows)

\* pd.read_csv: an empty cell is read as NaN
ReadCell(c) == IF c.kind = "empty" THEN NaN ELSE c

\* float(x) raises ValueError on text that is no number; float(NaN) is NaN
FloatRaises(c) == c.kind = "text"

\* str(x): str(NaN) is the text "nan"
Str(c) == IF c.kind = "nan" THEN TextCell ELSE c

\* notebook 04, parse_csv_invoice(file_path)
parse_csv_invoice(rows, has_timestamp, now) ==
    IF \E i \in 1..Len(rows) : FloatRaises(ReadCell(rows[i].amount))
    THEN [raised |-> TRUE, transactions |-> <<>>]
    ELSE [raised |-> FALSE,
          transactions |->
              [i \in 1..Len(rows) |->
                  [date      |-> ReadCell(rows[i].date),
                   amount    |-> ReadCell(rows[i].amount),
                   timestamp |-> IF has_timestamp
                                 THEN [from |-> "file", at |-> 0]
                                 ELSE [from |-> "datetime.now", at |-> now]]]]

\* api.py, upload_invoice: the CSV branch up to the transactions list
ParseUploadCsv(rows) ==
    IF \E i \in 1..Len(rows) : FloatRaises(ReadCell(rows[i].amount))
    THEN [raised |-> TRUE, transactions |-> <<>>]
    ELSE [raised |-> FALSE,
          transactions |->
              [i \in 1..Len(rows) |->
                  [date   |-> Str(ReadCell(rows[i].date)),
                   amount |-> ReadCell(rows[i].amount)]]]

ParseFrame == UNCHANGED <<graphVars, ledger, calcVars, storeVars, docVars, uiVars,
                          parse_in, chatVars, frontVars>>

ParseCsvInvoice ==
    /\ parse_out = None
    /\ LET r == parse_csv_invoice(parse_in.rows, parse_in.has_timestamp, parse_in.now)
       IN  parse_out' = Some([variant |-> "nb04", raised |-> r.raised,
                              transactions |-> r.transactions, result |-> r])
    /\ ParseFrame

ParseUpload ==
    /\ parse_out = None
    /\ LET r == ParseUploadCsv(parse_in.rows)
       IN  parse_out' = Some([variant |-> "api", raised |-> r.raised,
                              transactions |-> r.transactions, result |-> r])
    /\ ParseFrame

InitParse ==
    /\ parse_in \in [rows : CsvFiles, has_timestamp : BOOLEAN, now : 0..MaxClock]
    /\ parse_out = None
    /\ ledger = {}
    /\ GraphIdle /\ CalcIdle /\ StoreIdle /\ DocIdle /\ UiIdle /\ ChatIdle /\ FrontIdle

NextParse ==
    \/ ParseCsvInvoice
    \/ ParseUpload

SpecParse == InitParse /\ [][NextParse]_vars

-----------------------------------------------------------------------------
(* Claims on the parsers *)

Parsed == parse_out[1]

WellFormed(row) == row.date.kind = "date" /\ row.amount.kind = "num"

\* the date and amount of each entry of a list of rows or transactions
DateAmount(s) == [i \in 1..Len(s) |-> <<s[i].date, s[i].amount>>]

\* the skippedRows diagnostic of a parse result: neither parser returns one
SkippedRows(result) ==
    IF "skippedRows" \in DOMAIN result THEN result.skippedRows ELSE 0

\* C15: a CSV with at least one well-formed row is parsed without failure,
\* the transactions returned are exactly its well-formed rows, and
\* skippedRows counts the rows that were dropped.
C15_MalformedRowsSkipped ==
    LET good == SelectSeq(parse_in.rows, WellFormed)
    IN  (parse_out # None /\ good # <<>>) =>
            /\ ~Parsed.raised
            /\ DateAmount(Parsed.transactions) = DateAmount(good)
            /\ SkippedRows(Parsed.result) = Len(parse_in.rows) - Len(good)

\* the total amount a parse result states for the invoice: neither parser
\* returns one (no invoice summary is built)
InvoiceTotal(result) ==
    IF "total_amount" \in DOMAIN result THEN Some(result.total_amount) ELSE None

\* the sum of the amounts of a transaction list (NaN as soon as one is NaN)
RECURSIVE AmountSum(_)
AmountSum(s) ==
    IF s = <<>> THEN NumCell(0)
    ELSE LET rest == AmountSum(Tail(s))
         IN  IF Head(s).amount.kind = "nan" \/ rest.kind = "nan" THEN NaN
             ELSE NumCell(Head(s).amount.val + rest.val)

\* C16: every parse that returns states a total amount for the invoice, and
\* that total is the sum of the amounts of the transactions it returns.
C16_TotalReconciles ==
    (parse_out # None /\ ~Parsed.raised) =>
        InvoiceTotal(Parsed.result) = Some(AmountSum(Parsed.transactions))

-----------------------------------------------------------------------------
(* Claims on the write path, continued *)

\* the transaction ids an upload gave to its rows: f"{invoice_id}_{i}"
TransactionIds(r) == {<<uploads[r].invoice_id, i - 1>> : i \in 1..Len(uploads[r].rows)}

\* C17: two uploads of the same file by the same user, at whatever times,
\* give its transactions the same ids.
C17_ParseIdempotent ==
    \A r1, r2 \in Slots :
        (/\ uploads[r1].phase = "stored" /\ uploads[r2].phase = "stored"
         /\ uploads[r1].kind = "api" /\ uploads[r2].kind = "api"
         /\ uploads[r1].rows = uploads[r2].rows
         /\ uploads[r1].user = uploads[r2].user) =>
            TransactionIds(r1) = TransactionIds(r2)

-----------------------------------------------------------------------------
(* Claims on the documented memory *)

SessionEntries(mem, s) == {i \in 1..Len(mem) : mem[i].session_id = s}

\* loaded holds the n most recent entries of session s in mem, oldest first
IsRecentWindow(loaded, mem, s, n) ==
    LET k == Cardinality(SessionEntries(mem, s))
    IN  /\ \A i \in 1..Len(loaded) : loaded[i] \in Range(mem) /\ loaded[i].session_id = s
        /\ \A i, j \in 1..Len(loaded) : i < j => loaded[i].timestamp < loaded[j].timestamp
        /\ Len(loaded) = IF k < n THEN k ELSE n
        /\ \A m \in SessionEntries(mem, s) :
              mem[m] \notin Range(loaded) =>
                  \A i \in 1..Len(loaded) : mem[m].timestamp < loaded[i].timestamp

-----------------------------------------------------------------------------
(* SpecChat: one request to the chat endpoint of api.py, and its client *)

MaxChunks == 2      \* characters of response_text

ChatRequests ==
    [message : Texts, file : {"invoice text", "other text"}, session_id : {"none", "s1"},
     now : 0..MaxClock]

\* f"doc_{session_id or 'default'}_{int(time.time())}"
ChatDocId(session_id, now) == <<"doc", IF session_id = "none" THEN "default" ELSE session_id, now>>

ReadCall(op, status) == [op |-> op, status |-> status]

ChatFrame == UNCHANGED <<graphVars, ledger, calcVars, storeVars, docVars, uiVars, parseVars,
                         frontVars>>

\* the client closes the connection; the handler never asks
\* request.is_disconnected(), so nothing in it changes
ClientDisconnect ==
    /\ connected
    /\ chat_pc \notin {"done", "failed"}
    /\ connected' = FALSE
    /\ UNCHANGED <<chat_req, chat_pc, chat_docs, llm_calls, read_calls, sent>>
    /\ ChatFrame

\* contents = await file.read()
ChatRead ==
    /\ chat_pc = "read"
    /\ chat_pc' = "store"
    /\ UNCHANGED <<chat_req, connected, chat_docs, llm_calls, read_calls, sent>>
    /\ ChatFrame

\* embed the text and upsert the document; embed_query or upsert may raise
ChatStore ==
    /\ chat_pc = "store"
    /\ \/ /\ chat_docs' =
                {d \in chat_docs : d.id # ChatDocId(chat_req.session_id, chat_req.now)}
                \cup {[id         |-> ChatDocId(chat_req.session_id, chat_req.now),
                       text       |-> chat_req.file,
                       session_id |-> chat_req.session_id]}
          /\ read_calls' = Append(read_calls, ReadCall("embed_query(text)", "ok"))
          /\ chat_pc' = "search"
       \/ /\ chat_pc' = "failed"
          /\ \/ read_calls' = Append(read_calls, ReadCall("embed_query(text)", "raised"))
             \/ read_calls' = Append(read_calls, ReadCall("embed_query(text)", "ok"))
          /\ UNCHANGED chat_docs
    /\ UNCHANGED <<chat_req, connected, llm_calls, sent>>
    /\ ChatFrame

\* embed the message, client.search(limit=3), build the prompt, and enter
\* the blocking llm.invoke(prompt)
ChatSearch ==
    /\ chat_pc = "search"
    /\ \/ /\ llm_calls' = Append(llm_calls,
                                 [context |-> {d.text : d \in chat_docs},
                                  question |-> chat_req.message,
                                  status |-> "running",
                                  client_connected |-> connected])
          /\ read_calls' = read_calls \o <<ReadCall("embed_query(message)", "ok"),
                                            ReadCall("search", "ok")>>
          /\ chat_pc' = "invoke"
       \/ /\ chat_pc' = "failed"
          /\ \/ read_calls' = Append(read_calls, ReadCall("embed_query(message)", "raised"))
             \/ read_calls' = read_calls \o <<ReadCall("embed_query(message)", "ok"),
                                               ReadCall("search", "raised")>>
          /\ UNCHANGED llm_calls
    /\ UNCHANGED <<chat_req, connected, chat_docs, sent>>
    /\ ChatFrame

\* llm.invoke returns the whole response, whether or not the client is there
LlmReturn ==
    /\ chat_pc = "invoke"
    /\ llm_calls' = [llm_calls EXCEPT ![Len(llm_calls)].status = "returned",
                                      ![Len(llm_calls)].client_connected = connected]
    /\ chat_pc' = "stream"
    /\ UNCHANGED <<chat_req, connected, chat_docs, read_calls, sent>>
    /\ ChatFrame

\* llm.invoke raises: the handler ends with the exception
LlmRaise ==
    /\ chat_pc = "invoke"
    /\ llm_calls' = [llm_calls EXCEPT ![Len(llm_calls)].status = "raised",
                                      ![Len(llm_calls)].client_connected = connected]
    /\ chat_pc' = "failed"
    /\ UNCHANGED <<chat_req, connected, chat_docs, read_calls, sent>>
    /\ ChatFrame

\* EventSourceResponse(generate()): one character per event while the client
\* is connected
ChatStreamChunk ==
    /\ chat_pc = "stream"
    /\ connected
    /\ sent' = sent + 1
    /\ chat_pc' = IF sent + 1 = MaxChunks THEN "done" ELSE "stream"
    /\ UNCHANGED <<chat_req, connected, chat_docs, llm_calls, read_calls>>
    /\ ChatFrame

\* EventSourceResponse notices the disconnect and drops the generator
ChatStreamAbort ==
    /\ chat_pc = "stream"
    /\ ~connected
    /\ chat_pc' = "done"
    /\ UNCHANGED <<chat_req, connected, chat_docs, llm_calls, read_calls, sent>>
    /\ ChatFrame

InitChat ==
    /\ chat_req \in ChatRequests
    /\ chat_pc = "read"
    /\ connected = TRUE
    /\ chat_docs \in {{}, {[id |-> ChatDocId("s1", 0), text |-> "earlier text",
                           session_id |-> "s1"]}}
    /\ llm_calls = <<>>
    /\ read_calls = <<>>
    /\ sent = 0
    /\ ledger = {}
    /\ GraphIdle /\ CalcIdle /\ StoreIdle /\ DocIdle /\ UiIdle /\ ParseIdle /\ FrontIdle

NextChat ==
    \/ ClientDisconnect
    \/ ChatRead
    \/ ChatStore
    \/ ChatSearch
    \/ LlmReturn
    \/ LlmRaise
    \/ ChatStreamChunk
    \/ ChatStreamAbort

SpecChat == InitChat /\ [][NextChat]_vars

-----------------------------------------------------------------------------
(* Claims on the chat endpoint *)

\* C19: a generation that is in flight when the client disconnects is
\* cancelled: no llm.invoke runs to its end for a client that is gone, and
\* none is started for one.
C19_DisconnectCancelsGeneration ==
    \A i \in 1..Len(llm_calls) :
        llm_calls[i].status = "returned" => llm_calls[i].client_connected

-----------------------------------------------------------------------------
(* Claims on the coded workflow, continued *)

\* C20: a request whose generation step has run is answered: a failing
\* llm.invoke does not end the request without a response.
C20_GenerationFailureDegrades ==
    "generate_response" \in Range(trace) => node = "END"

-----------------------------------------------------------------------------
(* Claims on the chat endpoint, continued *)

\* the calls of operation op made after call i
RetriesOf(i) ==
    {j \in (i + 1)..Len(read_calls) : read_calls[j].op = read_calls[i].op}

\* C21: when the handler has ended, every embedding or search call that
\* failed was tried again exactly once, and the client was not sent the
\* output of two generation attempts.
C21_ReadsRetriedOnce ==
    chat_pc \in {"done", "failed"} =>
        /\ \A i \in 1..Len(read_calls) :
              read_calls[i].status = "raised" => Cardinality(RetriesOf(i)) = 1
        /\ Cardinality({i \in 1..Len(llm_calls) : llm_calls[i].status = "returned"}) <= 1

-----------------------------------------------------------------------------
(* Claims on the calculators: capacity *)

\* date_selection_max_days, scaled to the selections of this model
DateSelectionMax == 1

\* C22: a calculation request that selects more dates than the maximum is
\* rejected before anything runs: nothing is read from the ledger and no
\* total is computed.
C22_OverCapacityRejected ==
    (CalcDone /\ Cardinality(Range(calc_in.selected_dates)) > DateSelectionMax) =>
        /\ Out.retrieved = {}
        /\ Out.total = None

-----------------------------------------------------------------------------
(* Claims on the TransportCalculator and its Calendar *)

\* C23: the selection is always sorted ascending without two entries on the
\* same day, and a click on a day removes exactly that day when it is
\* selected and adds exactly that day when it is not.
C23_CalendarSelection ==
    /\ [](IsSortedNoDup(selectedDates))
    /\ [][\A day \in Cells :
             HandleDateClick(day) =>
                 Range(selectedDates') = IF day \in Range(selectedDates)
                                         THEN Range(selectedDates) \ {day}
                                         ELSE Range(selectedDates) \cup {day}]_vars

\* two days are selected
C23_Witness == Len(selectedDates) >= 2

\* C24: the file shared with the chat is the uploaded file when chat is
\* enabled and a file is uploaded, and there is none otherwise.
C24_SharedFileInvariant ==
    sharedInvoiceFile = IF enableChat /\ uploadedFile # None THEN uploadedFile ELSE None

\* chat is enabled and the shared file is the second file that was uploaded
C24_Witness ==
    /\ enableChat
    /\ sharedInvoiceFile = Some(FileC)
    /\ uploadedFile = Some(FileC)
    /\ calc_log # None /\ calc_log[1].file = FileA

\* C25: a total appears only from a calculation during which Clear was not
\* pressed: after Clear the total stays empty until a calculation that was
\* started afterwards completes.
C25_ClearedTotalStaysEmpty ==
    [][(totalCost = None /\ totalCost' # None) => ~Head(pending).cleared]_vars

\* C26: a calculation starts only with a file, at least one date and no
\* calculation loading, so at most one is in flight; a Calculate attempt
\* without a file or dates only shows the error toast; and every started
\* calculation eventually sets isLoading back to false.
C26_CalculationGuard ==
    /\ [](Len(pending) <= 1 /\ (pending # <<>> => isLoading))
    /\ [][Len(pending') > Len(pending) =>
              uploadedFile # None /\ selectedDates # <<>> /\ ~isLoading]_vars
    /\ [][\A tz \in TzOffsets :
             (HandleCalculate(tz) /\ (uploadedFile = None \/ selectedDates = <<>>)) =>
                 /\ last_toast' = Toast("Please upload an invoice and select dates.", "error")
                 /\ isLoading' = isLoading
                 /\ totalCost' = totalCost
                 /\ pending' = pending]_vars
    /\ (isLoading ~> ~isLoading)

\* a calculation was started and has completed
C26_Witness ==
    /\ calc_log # None
    /\ totalCost # None
    /\ ~isLoading
    /\ pending = <<>>

-----------------------------------------------------------------------------
(* SpecChatUI: the Chat component.  The content of a message is a sequence *)
(* of pieces of text, so that trim(), includes() and substring() are real  *)
(* operations.                                                             *)

MaxTranscript == 5  \* longest transcript a send may extend

UploadGreeting ==
    [role |-> "assistant",
     content |-> <<"Hello! ", "Upload a document", " and ask me anything about it.">>]

InvoiceGreeting ==
    [role |-> "assistant",
     content |-> <<"Hello! I'm ready to answer questions about your TFL invoice. ",
                   "What would you like to know?">>]

\* the simulated answer, two characters of it
fullResponse == <<"B", "a">>

\* what the user may type: a blank and a question
InputTexts == {<<" ">>, <<"q">>}

\* the files the Chat component's own FileUpload may hand over
ChatFiles == {"notes.pdf"}

RECURSIVE TrimStart(_)
TrimStart(s) == IF s # <<>> /\ Head(s) = " " THEN TrimStart(Tail(s)) ELSE s

RECURSIVE TrimEnd(_)
TrimEnd(s) ==
    IF s # <<>> /\ s[Len(s)] = " " THEN TrimEnd(SubSeq(s, 1, Len(s) - 1)) ELSE s

\* String.prototype.trim()
Trim(s) == TrimEnd(TrimStart(s))

\* content.includes(piece)
Includes(content, piece) == piece \in Range(content)

\* sharedInvoiceFile || ragFile
activeFile == IF sharedInvoiceFile # None THEN sharedInvoiceFile ELSE ragFile

\* the useEffect on [sharedInvoiceFile, ragFile], run after a render in which
\* one of them changed
FilesEffect(prev, shared, rag) ==
    IF shared # None
    THEN IF /\ Len(prev) = 1
            /\ prev[1].role = "assistant"
            /\ Includes(prev[1].content, "Upload a document")
         THEN <<InvoiceGreeting>>
         ELSE prev
    ELSE IF rag = None
         THEN <<UploadGreeting>>
         ELSE prev

\* a send that only a blank input stops
BlockedWhenBlank(value, loading) == Trim(value) = <<>>

\* handleSendMessage: if (!inputValue.trim() || isLoading) return
SendBlocked(value, loading) == Trim(value) = <<>> \/ loading

ChatUiFrame ==
    UNCHANGED <<graphVars, ledger, calcVars, storeVars, docVars, parseVars, chatVars,
                toastVars, selectedDates, uploadedFile, isLoading, totalCost, enableChat,
                pending, calc_log>>

\* onChange of the input, which is disabled without an active file
SetInputValue(text) ==
    /\ activeFile # None
    /\ text # inputValue
    /\ inputValue' = text
    /\ UNCHANGED <<messages, chat_isLoading, ragFile, streaming, sharedInvoiceFile,
                   last_toast>>
    /\ ChatUiFrame

\* the form is submitted (Enter in the input, or the send button, both
\* disabled without an active file): handleSendMessage up to its first await
HandleSendMessage ==
    /\ activeFile # None
    /\ IF SendBlocked(inputValue, chat_isLoading)
       THEN UNCHANGED <<messages, inputValue, chat_isLoading, streaming, last_toast>>
       ELSE IF activeFile = None
       THEN /\ last_toast' = Toast("Please upload a document to chat with.", "error")
            /\ UNCHANGED <<messages, inputValue, chat_isLoading, streaming>>
       ELSE LET userMessage == [role |-> "user", content |-> inputValue]
            IN  /\ Len(messages) + 2 <= MaxTranscript
                /\ messages' = Append(messages, userMessage)
                /\ inputValue' = <<>>
                /\ chat_isLoading' = TRUE
                /\ streaming' = Append(streaming,
                                       [userMessage |-> userMessage, pc |-> "api", i |-> 0])
                /\ UNCHANGED last_toast
    /\ UNCHANGED <<ragFile, sharedInvoiceFile>>
    /\ ChatUiFrame

\* the 500 ms timer of call k fires: the empty assistant message is appended
StreamBegin(k) ==
    /\ k \in 1..Len(streaming)
    /\ streaming[k].pc = "api"
    /\ messages' = Append(messages, [role |-> "assistant", content |-> <<>>])
    /\ streaming' = [streaming EXCEPT ![k].pc = "loop"]
    /\ UNCHANGED <<inputValue, chat_isLoading, ragFile, sharedInvoiceFile, last_toast>>
    /\ ChatUiFrame

\* a 15 ms timer of call k fires: one pass of the streaming loop and, after
\* the last pass, the finally block
StreamChunk(k) ==
    /\ k \in 1..Len(streaming)
    /\ streaming[k].pc = "loop"
    /\ LET i           == streaming[k].i
           lastMsg     == messages[Len(messages)]
           newMessages == Append(SubSeq(messages, 1, Len(messages) - 1),
                                 [lastMsg EXCEPT !.content = SubSeq(fullResponse, 1, i + 1)])
       IN  /\ messages' = newMessages
           /\ IF i + 1 < Len(fullResponse)
              THEN /\ streaming' = [streaming EXCEPT ![k].i = i + 1]
                   /\ UNCHANGED chat_isLoading
              ELSE /\ streaming' = RemoveAt(streaming, k)
                   /\ chat_isLoading' = FALSE
    /\ UNCHANGED <<inputValue, ragFile, sharedInvoiceFile, last_toast>>
    /\ ChatUiFrame

\* the Chat component's own FileUpload, rendered while no invoice is shared
HandleFileUploaded(file) ==
    /\ sharedInvoiceFile = None
    /\ ragFile' = Some(file)
    /\ last_toast' = Toast("file is ready for chat.", "success")
    /\ messages' = FilesEffect(messages, sharedInvoiceFile, ragFile')
    /\ UNCHANGED <<inputValue, chat_isLoading, streaming, sharedInvoiceFile>>
    /\ ChatUiFrame

HandleFileRemoved ==
    /\ sharedInvoiceFile = None
    /\ ragFile # None
    /\ ragFile' = None
    /\ last_toast' = Toast("File removed.", "success")
    /\ messages' = FilesEffect(messages, sharedInvoiceFile, ragFile')
    /\ UNCHANGED <<inputValue, chat_isLoading, streaming, sharedInvoiceFile>>
    /\ ChatUiFrame

\* App's setSharedInvoiceFile, called by the TransportCalculator with a file
\* or with null
SetSharedInvoiceFile(file) ==
    /\ file # sharedInvoiceFile
    /\ sharedInvoiceFile' = file
    /\ messages' = FilesEffect(messages, sharedInvoiceFile', ragFile)
    /\ UNCHANGED <<inputValue, chat_isLoading, ragFile, streaming, last_toast>>
    /\ ChatUiFrame

InitChatUI ==
    /\ messages = <<UploadGreeting>>
    /\ inputValue = <<>>
    /\ chat_isLoading = FALSE
    /\ ragFile = None
    /\ streaming = <<>>
    /\ ledger = {}
    /\ GraphIdle /\ CalcIdle /\ StoreIdle /\ DocIdle /\ UiIdle /\ ParseIdle /\ ChatIdle
    /\ ToastIdle

NextChatUI ==
    \/ \E text \in InputTexts : SetInputValue(text)
    \/ HandleSendMessage
    \/ \E k \in 1..Len(streaming) : StreamBegin(k)
    \/ \E k \in 1..Len(streaming) : StreamChunk(k)
    \/ \E file \in ChatFiles : HandleFileUploaded(file)
    \/ HandleFileRemoved
    \/ \E file \in {None} \cup {Some(f) : f \in UiFiles} : SetSharedInvoiceFile(file)

SpecChatUI == InitChatUI /\ [][NextChatUI]_vars

-----------------------------------------------------------------------------
(* Claims on the Chat component *)

\* C27: while a response streams the transcript keeps the user message of
\* that send, and each chunk update rewrites only the assistant message that
\* the send appended, which follows its user message; every other entry
\* stays as it was.
C27_ChunksTouchOwnMessage ==
    /\ [](\A k \in 1..Len(streaming) : streaming[k].userMessage \in Range(messages))
    /\ [][\A k \in 1..Len(streaming) :
             StreamChunk(k) =>
                 LET n == Len(messages)
                 IN  /\ n >= 2
                     /\ messages[n - 1] = streaming[k].userMessage
                     /\ messages[n] = [role |-> "assistant",
                                       content |-> SubSeq(fullResponse, 1, streaming[k].i)]
                     /\ Len(messages') = n
                     /\ SubSeq(messages', 1, n - 1) = SubSeq(messages, 1, n - 1)]_vars

\* C28: a submit with a blank input, while a response is loading, or without
\* an active file appends nothing and starts no request (without a file it
\* shows the error toast); a send that appends its user message starts from
\* a state with no response streaming, and at most one response streams.
C28_SendGuard ==
    /\ [](Len(streaming) <= 1 /\ (chat_isLoading <=> streaming # <<>>))
    /\ [][(HandleSendMessage
            /\ (Trim(inputValue) = <<>> \/ chat_isLoading \/ activeFile = None)) =>
               /\ messages' = messages
               /\ streaming' = streaming]_vars
    /\ [][(HandleSendMessage
            /\ Trim(inputValue) # <<>> /\ ~chat_isLoading /\ activeFile = None) =>
               last_toast' = Toast("Please upload a document to chat with.", "error")]_vars
    /\ [][(HandleSendMessage /\ messages' # messages) =>
               streaming = <<>> /\ ~chat_isLoading]_vars

\* the second response is streaming and the user has typed the next question
C28_Witness ==
    /\ chat_isLoading
    /\ inputValue = <<"q">>
    /\ Len(messages) >= 4

-----------------------------------------------------------------------------
(* SpecToast: App's toast list and the timer of every mounted Toast.  Time *)
(* is counted in ticks of Date.now(); a timer runs when it is due, before  *)
(* the clock moves on.                                                     *)

MaxNow    == 4      \* ticks the clock may advance
MaxToasts == 2      \* toasts in the list at one time

\* setTimeout(..., 5000), in ticks
ToastDelay == 2

ToastTypes == {"success", "error"}

\* a render of App hands every Toast a new dismissToast function, so the effect
\* on [toast, onDismiss] of every mounted Toast runs again: clearTimeout, then
\* setTimeout(..., 5000) from the time of the render
RestartTimers(list, t) ==
    [i \in 1..Len(list) |-> [list[i] EXCEPT !.due = t + ToastDelay]]

\* prev.filter(toast => toast.id !== id)
dismissToast(prev, id) == SelectSeq(prev, LAMBDA toast : toast.id # id)

RECURSIVE DismissAll(_, _)
DismissAll(prev, ids) ==
    IF ids = {} THEN prev
    ELSE LET id == CHOOSE x \in ids : TRUE
         IN  DismissAll(dismissToast(prev, id), ids \ {id})

ToastFrame ==
    UNCHANGED <<graphVars, ledger, calcVars, storeVars, docVars, uiVars, parseVars,
                chatVars, chatUiVars>>

\* showToast(message, type), then the render it causes
ShowToast(type) ==
    /\ Len(toasts) < MaxToasts
    /\ LET newToast == [id |-> date_now, type |-> type, due |-> date_now + ToastDelay]
       IN  toasts' = RestartTimers(Append(toasts, newToast), date_now)
    /\ UNCHANGED date_now
    /\ ToastFrame

\* a click on the close button of the i-th toast
DismissClick(i) ==
    /\ i \in 1..Len(toasts)
    /\ toasts' = RestartTimers(dismissToast(toasts, toasts[i].id), date_now)
    /\ UNCHANGED date_now
    /\ ToastFrame

\* the timers of the toasts in S are due and their callbacks run before App
\* renders again
TimerFire(S) ==
    /\ S # {}
    /\ \A i \in S : toasts[i].due <= date_now
    /\ toasts' = RestartTimers(DismissAll(toasts, {toasts[i].id : i \in S}), date_now)
    /\ UNCHANGED date_now
    /\ ToastFrame

\* App renders for another reason (setSharedInvoiceFile) while toasts are shown
AppRender ==
    /\ toasts # <<>>
    /\ toasts' = RestartTimers(toasts, date_now)
    /\ toasts' # toasts
    /\ UNCHANGED date_now
    /\ ToastFrame

\* the clock moves on once every due timer has run
TimePasses ==
    /\ date_now < MaxNow
    /\ \A i \in 1..Len(toasts) : toasts[i].due > date_now
    /\ date_now' = date_now + 1
    /\ UNCHANGED toasts
    /\ ToastFrame

InitToast ==
    /\ toasts = <<>>
    /\ date_now = 0
    /\ ledger = {}
    /\ GraphIdle /\ CalcIdle /\ StoreIdle /\ DocIdle /\ UiIdle /\ ParseIdle /\ ChatIdle
    /\ ChatUiIdle

NextToast ==
    \/ \E type \in ToastTypes : ShowToast(type)
    \/ \E i \in 1..MaxToasts : DismissClick(i)
    \/ \E S \in SUBSET (1..MaxToasts) : S \subseteq 1..Len(toasts) /\ TimerFire(S)
    \/ AppRender
    \/ TimePasses

SpecToast == InitToast /\ [][NextToast]_vars

-----------------------------------------------------------------------------
(* Claims on the toasts *)

\* C29: the toasts in the list have pairwise distinct ids, and a click on the
\* close button of a toast removes that one toast and leaves the others.
C29_ToastIdsDistinct ==
    /\ [](\A i, j \in 1..Len(toasts) : i # j => toasts[i].id # toasts[j].id)
    /\ [][\A i \in 1..Len(toasts) :
             DismissClick(i) => Len(toasts') = Len(toasts) - 1]_vars

\* C30: no toast is still in the list later than 5 seconds after it was
\* shown (the id of a toast is the time it was shown).
C30_ToastRemovedAfterDelay ==
    \A i \in 1..Len(toasts) : date_now - toasts[i].id <= ToastDelay

====
